---- MODULE Spec2Model ----
(***************************************************************************)
(* The tool-use loop of the MCP chat clients (mcpclient/mcp_chatbot_*.py). *)
(*                                                                         *)
(* One MCPClient runs chat_loop: it reads a line, and unless the line is   *)
(* "quit" it runs process_query on it, which cycles                        *)
(*     list_tools -> completion call -> tool calls of the response         *)
(* at most max_iterations times.  The two drivers (deepseek, ollama) are   *)
(* modelled side by side; `variant` says which one a behaviour runs.       *)
(*                                                                         *)
(* Python strings that are built by concatenation are sequences of string  *)
(* chunks (f"Error executing {n}: {e}" is <<"Error executing ", n, ": ",   *)
(* e>>); a line typed by the user is a sequence of characters.             *)
(***************************************************************************)
EXTENDS Integers, Sequences, FiniteSets, TLC

VARIABLES
    variant,          \* which driver runs: "deepseek" or "ollama"
    withIds,          \* environment: do the provider's tool calls carry an "id"
    cpc,              \* chat_loop position: "input", "process_query", "exited",
                      \* "interrupted"
    stdout,           \* the last text chat_loop printed
    pc,               \* process_query position
    messages,         \* process_query's local list `messages`
    it,               \* number of `for _ in range(max_iterations)` rounds begun
    available_tools,  \* process_query's local `available_tools`
    message,          \* the completion response being handled
    idx,              \* position of the `for tool_call in ...` loop (1-based)
    ret,              \* value process_query returned
    exc,              \* exception that left process_query ("none" if none)
    completionCalls,  \* history: completion-API calls issued in this query
    responses,        \* history: completion calls of this query that were answered
    toolResponses,    \* history: answers of this query that requested tool calls
    listCalls,        \* history: list_tools calls issued in this query
    toolInvocations,  \* history: call_tool invocations issued in this query
    lastCall,         \* history: the latest call_tool invocation and its outcome
    requested,        \* history: tool-call requests of the batches taken up
    variation,        \* environment: departures from the plain exchange so far
    limit,            \* the value `max_iterations` has in process_query
    query,            \* chat_loop's local `query`: the latest line, stripped
    tool_response,    \* process_query's local: the tools list_tools returned
    passed,           \* history: arguments of this round's completion call
    carried           \* history: an earlier query of the session grew its log

vars == << variant, withIds, cpc, stdout, pc, messages, it, available_tools,
           message, idx, ret, exc, completionCalls, responses, toolResponses,
           listCalls, toolInvocations, lastCall, requested, variation,
           limit, query, tool_response, passed, carried >>

----------------------------------------------------------------------------
(* Bounds of the exploration *)

\* Largest number of tool calls one completion response carries.
MaxBatch == 2

\* Largest value of `max_iterations` in the specification that lets it vary.
MaxLimit == 2

\* Per query, how many times the environment may depart from the plain
\* exchange (one tool call per response, default tool, well-formed
\* arguments, successful result).  Departures that end the query are free.
MaxVariation == 1

----------------------------------------------------------------------------
(* Program constants *)

max_iterations == 10

Variants == {"deepseek", "ollama"}

SystemPrompt ==
    "You are an autonomous Kubernetes assistant. When asked to perform actions, automatically execute the necessary tools without asking for confirmation. Only ask for clarification if the request is ambiguous or missing required parameters."

Sentinel == << "Maximum iterations reached without completing the request" >>

----------------------------------------------------------------------------
(* The environment's values *)

\* Lines the user may type (sequences of characters).
Lines ==
    { << "k" >>,
      << " ", "Q", "u", "i", "t", "s", " " >>,
      << "q", "u", "i", "t" >>,
      << " ", "Q", "U", "i", "t", " " >> }

\* Tool names the model asks for.  The drivers only copy a tool's name, so
\* the name of a call is fixed by its place in the batch: list_pods at the
\* odd places, get_logs at the even ones.
DefaultTool == "list_pods"
ToolNames == {DefaultTool, "get_logs"}
NameAt(pos) == IF pos % 2 = 1 THEN DefaultTool ELSE "get_logs"

\* Text contents of completion responses.
Contents == { << "There are two pods: pod-a, pod-b." >>, << "" >> }

\* Python values of tool arguments: a dict or a list, with its items.
Dict(items) == [type |-> "dict", items |-> items]
List(items) == [type |-> "list", items |-> items]
EmptyDict == Dict(<< >>)
\* A key that is missing from a mapping.
Absent == [type |-> "absent", items |-> << >>]
NoId == << >>
IsAbsent(v) == v = Absent

\* deepseek: `function.arguments` is JSON-encoded text.
WellFormedArgs == "{\"namespace\": \"default\"}"
RawArguments == {WellFormedArgs, "not-json", "[1]"}
\* ollama: `function.arguments` is a mapping already, or the key is missing.
OllamaArguments == {Dict(<< "namespace", "default" >>), Absent}

ArgChoices(v) == IF v = "deepseek" THEN RawArguments ELSE OllamaArguments
DefaultArgs(v) ==
    IF v = "deepseek" THEN WellFormedArgs ELSE Dict(<< "namespace", "default" >>)

\* Outcomes of session.call_tool: a result (possibly flagged isError) or an
\* exception, raised by the tool's handling or by a broken transport.
ToolResults == {[isError |-> FALSE], [isError |-> TRUE]}
ToolExceptions == {"ClosedResourceError: host gone", "McpError: tool failed"}

\* Exceptions of the completion call and of list_tools.
CompletionExceptions == {"requests.ConnectionError", "APIError"}
ListExceptions == {"ClosedResourceError: host gone"}

----------------------------------------------------------------------------
(* Python's str.strip and str.lower on a line of characters *)

IsSpace(c) == c \in {" ", "\t", "\n"}

RECURSIVE lstrip(_)
lstrip(s) == IF s # << >> /\ IsSpace(Head(s)) THEN lstrip(Tail(s)) ELSE s

RECURSIVE rstrip(_)
rstrip(s) ==
    IF s # << >> /\ IsSpace(s[Len(s)]) THEN rstrip(SubSeq(s, 1, Len(s) - 1)) ELSE s

strip(s) == rstrip(lstrip(s))

LowerChar(c) ==
    CASE c = "Q" -> "q"
      [] c = "U" -> "u"
      [] c = "I" -> "i"
      [] c = "T" -> "t"
      [] c = "K" -> "k"
      [] c = "S" -> "s"
      [] OTHER -> c

lower(s) == [i \in 1..Len(s) |-> LowerChar(s[i])]

QuitToken == << "q", "u", "i", "t" >>

----------------------------------------------------------------------------
(* Tool catalog: list_tools and the declarations built from it *)

HostTool(t) ==
    [name |-> t, description |-> "tool " \o t, inputSchema |-> "schema of " \o t]

\* The list comprehension building `available_tools` from tool_response.tools.
Declarations(tools) ==
    [i \in 1..Len(tools) |->
        [type |-> "function",
         function |-> [name |-> tools[i].name,
                       description |-> tools[i].description,
                       parameters |-> tools[i].inputSchema]]]

\* A slip of the refresh: the declarations built in the first round are kept.
AvailableToolsOnce(old, tools) == IF old = << >> THEN Declarations(tools) ELSE old

\* `available_tools = [...]`, assigned anew in every round.
AvailableTools(old, tools) == Declarations(tools)

CatalogLists == { << HostTool(DefaultTool) >>,
                  << HostTool(DefaultTool), HostTool("get_logs") >> }

----------------------------------------------------------------------------
(* Completion responses the provider may send *)

\* Identifier the provider gives the pos-th tool call of the round-th response.
CallId(round, pos) == << "call", ToString(round), ToString(pos) >>

\* The tool call objects of a response, from their names and arguments.
ToolCall(v, ids, round, pos, arguments) ==
    IF v = "deepseek"
    THEN [id |-> CallId(round, pos),
          function |-> [name |-> NameAt(pos), arguments |-> arguments],
          type |-> "function"]
    ELSE [id |-> IF ids THEN CallId(round, pos) ELSE NoId,
          function |-> [name |-> NameAt(pos), arguments |-> arguments]]

ArgCost(v, arguments) == IF arguments # DefaultArgs(v) THEN 1 ELSE 0

RECURSIVE ArgsCost(_, _)
ArgsCost(v, f) ==
    IF f = << >> THEN 0 ELSE ArgCost(v, Head(f)) + ArgsCost(v, Tail(f))

\* What a batch takes from the variation budget: one for every call after
\* the first, one for every call whose arguments are not the plain ones.
BatchCost(v, f) == (IF Len(f) > 1 THEN Len(f) - 1 ELSE 0) + ArgsCost(v, f)

\* The tool_calls lists a response of this round may carry within the budget.
Batches(v, ids, round, budget) ==
    UNION { { [pos \in 1..n |-> ToolCall(v, ids, round, pos, f[pos])] :
                f \in { g \in [1..n -> ArgChoices(v)] : BatchCost(v, g) <= budget } } :
            n \in 0..MaxBatch }

\* deepseek: choices[0] flattened to finish_reason and the message's fields.
\* ollama: response["message"]; the driver reads no finish reason from it.
Responses(v, ids, round, budget) ==
    IF v = "deepseek"
    THEN [finish_reason : {"stop", "tool_calls"},
          content : Contents,
          tool_calls : Batches(v, ids, round, budget)]
    ELSE [content : Contents, tool_calls : Batches(v, ids, round, budget)]

\* The provider's view of a response: does it ask for tool calls.
RequestsTools(v, m) ==
    IF v = "deepseek"
    THEN m.finish_reason = "tool_calls" /\ m.tool_calls # << >>
    ELSE m.tool_calls # << >>

\* The finish reason of a response.  ollama's driver is handed none: there
\* a response finishes with tool calls exactly when it carries some.
FinishReason(v, m) ==
    IF v = "deepseek"
    THEN m.finish_reason
    ELSE IF m.tool_calls # << >> THEN "tool_calls" ELSE "stop"

\* The variation a response's batch used up.
CostOf(v, calls) ==
    BatchCost(v, [i \in 1..Len(calls) |-> calls[i].function.arguments])

----------------------------------------------------------------------------
(* process_query: the pieces of its body *)

SystemMessage == [role |-> "system", content |-> << SystemPrompt >>]
UserMessage(q) == [role |-> "user", content |-> q]

\* A slip of the log's set-up: once an earlier query of the session grew
\* its log, a digest of the earlier turns is put before the new user message.
InitialMessagesRemembering(q) ==
    IF carried
    THEN << SystemMessage,
            [role |-> "assistant", content |-> << "(earlier turns)" >>],
            UserMessage(q) >>
    ELSE << SystemMessage, UserMessage(q) >>

\* The initial `messages` list.
InitialMessages(q) == << SystemMessage, UserMessage(q) >>

\* json.loads on the argument texts: the value, or a JSONDecodeError.
json_loads(text) ==
    CASE text = WellFormedArgs -> [ok |-> TRUE, value |-> Dict(<< "namespace", "default" >>)]
      [] text = "[1]" -> [ok |-> TRUE, value |-> List(<< "1" >>)]
      [] OTHER -> [ok |-> FALSE, value |-> Absent]

\* `tool_args`: deepseek decodes the text and falls back to {} on a
\* JSONDecodeError; ollama takes the mapping and falls back to {} on KeyError.
ToolArgs(v, tool_call) ==
    IF v = "deepseek"
    THEN LET parsed == json_loads(tool_call.function.arguments)
         IN  IF parsed.ok THEN parsed.value ELSE EmptyDict
    ELSE IF IsAbsent(tool_call.function.arguments)
         THEN EmptyDict
         ELSE tool_call.function.arguments

\* Slips of the branch condition: the finish reason is not looked at; the
\* list of tool calls is not looked at.
HandlesToolCallsAnyReason(v, m) == m.tool_calls # << >>
HandlesToolCallsReasonOnly(v, m) ==
    IF v = "deepseek" THEN m.finish_reason = "tool_calls" ELSE m.tool_calls # << >>

\* The branch taken after a completion response: handle tool calls, or return.
HandlesToolCalls(v, m) ==
    IF v = "deepseek"
    THEN m.finish_reason = "tool_calls" /\ m.tool_calls # << >>
    ELSE m.tool_calls # << >>

\* str(result) of a call_tool result.
str(result) ==
    << "CallToolResult(isError=", IF result.isError THEN "True" ELSE "False", ")" >>

\* tool_call.get("id", "unknown")
GetId(tool_call) == IF tool_call.id = NoId THEN << "unknown" >> ELSE tool_call.id

\* The assistant message appended for one tool call.
AssistantMessage(v, tool_call) ==
    [role |-> "assistant",
     content |-> << "" >>,
     tool_calls |->
        IF v = "deepseek"
        THEN << [id |-> tool_call.id,
                 function |-> [name |-> tool_call.function.name,
                               arguments |-> tool_call.function.arguments],
                 type |-> "function"] >>
        ELSE << tool_call >>]

\* tool_call_id of the tool message appended for one tool call.
ToolCallId(v, tool_call) ==
    IF v = "deepseek" THEN tool_call.id ELSE GetId(tool_call)

\* The tool message appended for one tool call.
ToolMessage(v, tool_call, result) ==
    [role |-> "tool",
     name |-> tool_call.function.name,
     content |-> str(result),
     tool_call_id |-> ToolCallId(v, tool_call)]

\* A slip of the appends: the assistant message is left out.
AppendedAnswerOnly(v, tool_call, result) == << ToolMessage(v, tool_call, result) >>

\* The two messages appended after a tool call returned.
Appended(v, tool_call, result) ==
    << AssistantMessage(v, tool_call), ToolMessage(v, tool_call, result) >>

\* The string returned when call_tool raised.
ToolError(tool_name, e) == << "Error executing ", tool_name, ": ", e >>

\* ollama: `except requests.RequestException` around the completion call.
IsRequestException(e) == e = "requests.ConnectionError"
CompletionError(e) == << "Error calling Ollama API: ", e >>

\* A slip of the handler: the completion call is issued again.
OnCompletionExceptionRetry(v, e) == [pc |-> "complete", ret |-> << >>, exc |-> "none"]

\* What process_query does when the completion call raises: ollama catches
\* requests.RequestException and returns a string; everything else (and
\* everything in deepseek) leaves process_query as the exception.
OnCompletionException(v, e) ==
    IF v = "ollama" /\ IsRequestException(e)
    THEN [pc |-> "returned", ret |-> CompletionError(e), exc |-> "none"]
    ELSE [pc |-> "raised", ret |-> << >>, exc |-> e]

\* A slip of the log's upkeep: only the first two messages and the newest
\* pair are kept.
AfterAppendWindow(log, entries) == SubSeq(log, 1, 2) \o entries

\* `messages.append(...)` twice: the log after the two appends.
AfterAppend(log, entries) == log \o entries

\* Slips of the round loop's bound: one round too many, one too few.
HasRoundOneMore(n) == n <= limit
HasRoundOneLess(n) == n < limit - 1

\* The `for _ in range(max_iterations)` loop has a round left.
HasRound(n) == n < limit

\* A slip of the final return: the text of the whole message, not its content.
FinalAnswerWhole(m) == << "message: " >> \o m.content

\* `return message.content` of the final branch.
FinalAnswer(m) == m.content

\* A slip of the tool-call loop: only the first call of a batch is handled.
AfterCallFirstOnly(i, tool_calls) == "loop"

\* A slip of the tool-call loop: it never hands control back to the round
\* loop.
AfterCallStuck(i, tool_calls) == "tools"

\* The place of the tool-call loop after the idx-th call returned.
AfterCall(i, tool_calls) == IF i = Len(tool_calls) THEN "loop" ELSE "tools"

\* A slip of the exception handler: the failure is swallowed and the batch
\* goes on.
OnToolExceptionGoOn(tool_name, e, i, tool_calls) ==
    [pc |-> AfterCall(i, tool_calls), ret |-> << >>]

\* `except Exception as e` around call_tool: what process_query does next.
OnToolException(tool_name, e, i, tool_calls) ==
    [pc |-> "returned", ret |-> ToolError(tool_name, e)]

\* What the `for` loop falls through to when no round is left.
OnExhausted == Sentinel

NoCall == [call |-> << >>, args |-> Absent, round |-> 0, raised |-> FALSE,
           error |-> "none"]

NoMessage == [finish_reason |-> "none", content |-> << >>, tool_calls |-> << >>]

\* No completion call has been issued in this round.
NoRequest == [tools |-> << >>, messages |-> << >>]

\* The arguments `messages=` and `tools=` of a completion call.
Request(log, tools) == [tools |-> tools, messages |-> log]

----------------------------------------------------------------------------
(* State after construction and connect_to_server: chat_loop at its prompt *)

Prompt == << "\nQuery: " >>

\* The state chat_loop starts in, for the values `max_iterations` may have.
Start(limits) ==
    /\ variant \in Variants
    /\ withIds = TRUE
    /\ cpc = "input"
    /\ stdout = << "\nMCP Client Started!", "Type your queries or 'quit' to exit." >>
    /\ pc = "idle"
    /\ messages = << >>
    /\ it = 0
    /\ available_tools = << >>
    /\ message = NoMessage
    /\ idx = 0
    /\ ret = << >>
    /\ exc = "none"
    /\ completionCalls = 0
    /\ responses = 0
    /\ toolResponses = 0
    /\ listCalls = 0
    /\ toolInvocations = 0
    /\ lastCall = NoCall
    /\ requested = 0
    /\ variation = 0
    /\ limit \in limits
    /\ query = << >>
    /\ tool_response = << >>
    /\ passed = NoRequest
    /\ carried = FALSE

Init == Start({max_iterations})

\* The locals of process_query are gone once chat_loop has its outcome.
Discard ==
    /\ pc' = "idle"
    /\ messages' = << >>
    /\ it' = 0
    /\ available_tools' = << >>
    /\ message' = NoMessage
    /\ idx' = 0
    /\ ret' = << >>
    /\ exc' = "none"
    /\ completionCalls' = 0
    /\ responses' = 0
    /\ toolResponses' = 0
    /\ listCalls' = 0
    /\ toolInvocations' = 0
    /\ lastCall' = NoCall
    /\ requested' = 0
    /\ variation' = 0
    /\ tool_response' = << >>
    /\ passed' = NoRequest

chatVars == << cpc, stdout >>
envVars == << variant, withIds, limit >>
queryVars == << pc, messages, it, available_tools, message, idx, ret, exc >>
completionVars == << completionCalls, responses, toolResponses, requested >>
toolVars == << toolInvocations, lastCall >>
historyVars == << completionVars, toolVars, listCalls, variation >>
requestVars == << tool_response, passed >>
sessionVars == << query, carried >>

----------------------------------------------------------------------------
(* chat_loop *)

\* A slip of the quit test: the line is compared as typed, without lower().
IsQuitExact(q) == q = QuitToken

\* `query.lower() == 'quit'`
IsQuit(q) == lower(q) = QuitToken

\* A slip of the except clause: the loop is left after the error is printed.
OnExceptionLeave == "exited"

\* `except Exception` inside `while True`: the loop goes on with input().
OnException == "input"

\* input() returns a line that is not "quit": process_query starts on it.
ReadQuery ==
    /\ cpc = "input"
    /\ \E line \in Lines :
         /\ query' = strip(line)
         /\ ~IsQuit(query')
         /\ messages' = InitialMessages(query')
    /\ \E ids \in (IF variant = "deepseek" THEN {TRUE} ELSE BOOLEAN) : withIds' = ids
    /\ cpc' = "process_query"
    /\ stdout' = Prompt
    /\ pc' = "loop"
    /\ it' = 0
    /\ UNCHANGED << variant, limit, available_tools, message, idx, ret, exc,
                    historyVars, requestVars, carried >>

\* input() returns "quit" in any case, with any surrounding blanks: break.
ReadQuit ==
    /\ cpc = "input"
    /\ \E line \in Lines :
         /\ query' = strip(line)
         /\ IsQuit(query')
    /\ cpc' = "exited"
    /\ stdout' = Prompt
    /\ UNCHANGED << envVars, queryVars, historyVars, requestVars, carried >>

\* input() raises an Exception (end of input): the except clause prints it
\* and the loop goes on.
InputExceptions == {"EOF when reading a line"}

ReadFails ==
    /\ cpc = "input"
    /\ \E e \in InputExceptions : stdout' = << "\nError: ", e >>
    /\ cpc' = OnException
    /\ UNCHANGED << envVars, queryVars, historyVars, requestVars, sessionVars >>

\* input() is interrupted from the keyboard.  KeyboardInterrupt is a
\* BaseException and no Exception: the except clause lets it through, it
\* leaves chat_loop and main, and the process ends with a traceback.
Interrupts == {"KeyboardInterrupt"}

ReadInterrupted ==
    /\ cpc = "input"
    /\ \E e \in Interrupts : exc' = e
    /\ cpc' = "interrupted"
    /\ stdout' = Prompt
    /\ UNCHANGED << envVars, pc, messages, it, available_tools, message, idx, ret,
                    historyVars, requestVars, sessionVars >>

\* process_query returned: print("\n" + response), back to the prompt.
PrintResponse ==
    /\ cpc = "process_query"
    /\ pc = "returned"
    /\ stdout' = << "\n" >> \o ret
    /\ cpc' = "input"
    /\ carried' = (carried \/ Len(messages) > 2)
    /\ Discard
    /\ UNCHANGED << envVars, query >>

\* process_query raised: the except clause prints the error, back to the prompt.
PrintError ==
    /\ cpc = "process_query"
    /\ pc = "raised"
    /\ stdout' = << "\nError: ", exc >>
    /\ cpc' = OnException
    /\ carried' = (carried \/ Len(messages) > 2)
    /\ Discard
    /\ UNCHANGED << envVars, query >>

----------------------------------------------------------------------------
(* process_query *)

\* A slip of the refresh: the round also notes the catalog in the log.
ListToolsNoted ==
    /\ pc = "loop"
    /\ HasRound(it)
    /\ it' = it + 1
    /\ listCalls' = listCalls + 1
    /\ \E tools \in CatalogLists :
         /\ tool_response' = tools
         /\ available_tools' = AvailableTools(available_tools, tools)
         /\ messages' = Append(messages,
                               [role |-> "system",
                                content |-> << "tools: ", ToString(Len(tools)) >>])
    /\ passed' = NoRequest
    /\ pc' = "complete"
    /\ UNCHANGED << chatVars, envVars, message, idx, ret, exc,
                    completionVars, toolVars, variation, sessionVars >>

\* A round begins: list_tools answers and available_tools is rebuilt.
ListTools ==
    /\ pc = "loop"
    /\ HasRound(it)
    /\ it' = it + 1
    /\ listCalls' = listCalls + 1
    /\ \E tools \in CatalogLists :
         /\ tool_response' = tools
         /\ available_tools' = AvailableTools(available_tools, tools)
    /\ passed' = NoRequest
    /\ pc' = "complete"
    /\ UNCHANGED << chatVars, envVars, messages, message, idx, ret, exc,
                    completionVars, toolVars, variation, sessionVars >>

\* A round begins: list_tools raises, and the exception leaves process_query.
ListToolsFails ==
    /\ pc = "loop"
    /\ HasRound(it)
    /\ it' = it + 1
    /\ listCalls' = listCalls + 1
    /\ \E e \in ListExceptions : exc' = e
    /\ passed' = NoRequest
    /\ pc' = "raised"
    /\ UNCHANGED << chatVars, envVars, messages, available_tools, message, idx, ret,
                    completionVars, toolVars, variation, tool_response,
                    sessionVars >>

\* The loop ran out of rounds: the sentinel is returned.
Exhausted ==
    /\ pc = "loop"
    /\ ~HasRound(it)
    /\ ret' = OnExhausted
    /\ pc' = "returned"
    /\ UNCHANGED << chatVars, envVars, messages, it, available_tools, message, idx,
                    exc, historyVars, requestVars, sessionVars >>

\* What the history records of an answered completion call.
Answered(m) ==
    /\ completionCalls' = completionCalls + 1
    /\ responses' = responses + 1
    /\ toolResponses' = toolResponses + (IF RequestsTools(variant, m) THEN 1 ELSE 0)
    /\ requested' = requested + (IF RequestsTools(variant, m) THEN Len(m.tool_calls) ELSE 0)
    /\ passed' = Request(messages, available_tools)

\* The completion call answers with a response whose tool calls are taken up.
CompleteToolCalls ==
    /\ pc = "complete"
    /\ \E m \in Responses(variant, withIds, it, MaxVariation - variation) :
         /\ HandlesToolCalls(variant, m)
         /\ message' = m
         /\ Answered(m)
         /\ variation' = variation + CostOf(variant, m.tool_calls)
    /\ idx' = 1
    /\ pc' = "tools"
    /\ UNCHANGED << chatVars, envVars, messages, it, available_tools, ret, exc,
                    listCalls, toolVars, tool_response, sessionVars >>

\* The completion call answers with a response taken as final: its content
\* is returned.
CompleteFinal ==
    /\ pc = "complete"
    /\ \E m \in Responses(variant, withIds, it, MaxVariation - variation) :
         /\ ~HandlesToolCalls(variant, m)
         /\ message' = m
         /\ Answered(m)
         /\ ret' = FinalAnswer(m)
    /\ pc' = "returned"
    /\ UNCHANGED << chatVars, envVars, messages, it, available_tools, idx, exc,
                    listCalls, toolVars, variation, tool_response, sessionVars >>

\* The completion call raises.  ollama returns an error string for a
\* requests.RequestException; every other exception leaves process_query.
CompleteFails ==
    /\ pc = "complete"
    /\ \E e \in CompletionExceptions :
         LET next == OnCompletionException(variant, e)
         IN  /\ pc' = next.pc
             /\ ret' = next.ret
             /\ exc' = next.exc
    /\ completionCalls' = completionCalls + 1
    /\ passed' = Request(messages, available_tools)
    /\ UNCHANGED << chatVars, envVars, messages, it, available_tools, message, idx,
                    responses, toolResponses, requested, listCalls, toolVars,
                    variation, tool_response, sessionVars >>

\* One pass of `for tool_call in tool_calls` in which call_tool returns: the
\* assistant and tool messages are appended; after the last call of the
\* batch control is back at the head of the round loop.
InvokeTool ==
    /\ pc = "tools"
    /\ idx <= Len(message.tool_calls)
    /\ LET tool_call == message.tool_calls[idx]
           tool_args == ToolArgs(variant, tool_call)
       IN  \E result \in ToolResults :
             /\ variation + (IF result.isError THEN 1 ELSE 0) <= MaxVariation
             /\ variation' = variation + (IF result.isError THEN 1 ELSE 0)
             /\ lastCall' = [call |-> tool_call, args |-> tool_args, round |-> it,
                             raised |-> FALSE, error |-> "none"]
             /\ messages' = AfterAppend(messages, Appended(variant, tool_call, result))
    /\ toolInvocations' = toolInvocations + 1
    /\ idx' = idx + 1
    /\ pc' = AfterCall(idx, message.tool_calls)
    /\ UNCHANGED << chatVars, envVars, it, available_tools, message, ret, exc,
                    completionVars, listCalls, requestVars, sessionVars >>

\* One pass of `for tool_call in tool_calls` in which call_tool raises:
\* process_query returns the error string at once.
InvokeToolRaises ==
    /\ pc = "tools"
    /\ idx <= Len(message.tool_calls)
    /\ LET tool_call == message.tool_calls[idx]
           tool_args == ToolArgs(variant, tool_call)
       IN  \E e \in ToolExceptions :
             LET next == OnToolException(tool_call.function.name, e, idx,
                                         message.tool_calls)
             IN  /\ lastCall' = [call |-> tool_call, args |-> tool_args, round |-> it,
                                 raised |-> TRUE, error |-> e]
                 /\ ret' = next.ret
                 /\ pc' = next.pc
                 /\ idx' = IF next.pc = "returned" THEN idx ELSE idx + 1
    /\ toolInvocations' = toolInvocations + 1
    /\ UNCHANGED << chatVars, envVars, messages, it, available_tools, message,
                    exc, completionVars, listCalls, variation, requestVars,
                    sessionVars >>

----------------------------------------------------------------------------

Next ==
    \/ ReadQuery
    \/ ReadQuit
    \/ ReadFails
    \/ ReadInterrupted
    \/ PrintResponse
    \/ PrintError
    \/ ListTools
    \/ ListToolsFails
    \/ Exhausted
    \/ CompleteToolCalls
    \/ CompleteFinal
    \/ CompleteFails
    \/ InvokeTool
    \/ InvokeToolRaises

Spec == Init /\ [][Next]_vars

\* A step of process_query.  Each waits for nothing but an external call
\* (list_tools, the completion call, call_tool); when these return or fail
\* in finite time, a query that can take a step takes one.
QueryStep ==
    \/ ListTools
    \/ ListToolsFails
    \/ Exhausted
    \/ CompleteToolCalls
    \/ CompleteFinal
    \/ CompleteFails
    \/ InvokeTool
    \/ InvokeToolRaises

FairSpec == Spec /\ WF_vars(QueryStep)

\* The same program with `max_iterations` set to any small value, zero
\* included, in place of the 10 of line 86.
InitAnyLimit == Start(0..MaxLimit)

SpecAnyLimit == InitAnyLimit /\ [][Next]_vars

----------------------------------------------------------------------------
(* Properties of the iteration budget *)

\* C1: in every execution of process_query, whatever the completion
\* responses and tool outcomes, the number of completion-API calls issued
\* never exceeds max_iterations, and neither does the number of rounds begun
\* (a completion call is issued only inside a round).
C1_CompletionCallsBounded ==
    /\ completionCalls <= max_iterations
    /\ it <= max_iterations
    /\ completionCalls <= it

\* The tenth completion call has been issued and asked for more tool calls.
C1_Witness == completionCalls = max_iterations /\ pc = "tools"

\* C6: if every completion call of a query is answered by a response that
\* requests at least one tool call, and no tool invocation raises, then
\* process_query returns the fixed sentinel string, after exactly
\* max_iterations completion calls.
C6_ExhaustionSentinel ==
    (/\ pc = "returned"
     /\ responses = completionCalls
     /\ toolResponses = responses
     /\ ~lastCall.raised)
    => (ret = Sentinel /\ completionCalls = max_iterations)

\* A query ran out of rounds, one of which carried a batch of several calls.
C6_Witness ==
    /\ pc = "returned"
    /\ ret = Sentinel
    /\ toolResponses = max_iterations
    /\ toolInvocations > max_iterations

\* C7: if the first k completion responses of a query each request tool
\* calls whose invocations all return, and response k+1 is a stop response,
\* then exactly k+1 completion calls are issued, the tools were invoked once
\* per request of the first k responses, and process_query returns exactly
\* the content of response k+1.
C7_FinalAnswerAfterTools ==
    (/\ pc = "returned"
     /\ responses = completionCalls
     /\ FinishReason(variant, message) = "stop"
     /\ ~lastCall.raised)
    => (/\ completionCalls = toolResponses + 1
        /\ toolInvocations = requested
        /\ ret = message.content)

\* A stop response came after two tool rounds, one with a batch of several.
C7_Witness ==
    /\ pc = "returned"
    /\ responses = completionCalls
    /\ FinishReason(variant, message) = "stop"
    /\ ~lastCall.raised
    /\ toolResponses >= 2
    /\ toolInvocations > toolResponses

----------------------------------------------------------------------------
(* Properties of the tool-call batch *)

ToolIndices == { i \in 1..Len(messages) : messages[i].role = "tool" }

HasAssistantBefore(i) == \E j \in 1..(i - 1) : messages[j].role = "assistant"

NearestAssistant(i) ==
    CHOOSE j \in 1..(i - 1) :
        /\ messages[j].role = "assistant"
        /\ \A k \in (j + 1)..(i - 1) : messages[k].role # "assistant"

\* C2: every tool-role message in the log carries as tool_call_id the id of
\* some tool-call request of the nearest preceding assistant message, and
\* when the next completion call is due every request of the latest
\* response has exactly one tool-role message in the log.
C2_ToolMessagesAnswerRequests ==
    /\ \A i \in ToolIndices :
         /\ HasAssistantBefore(i)
         /\ \E n \in 1..Len(messages[NearestAssistant(i)].tool_calls) :
              messages[NearestAssistant(i)].tool_calls[n].id = messages[i].tool_call_id
    /\ pc \in {"loop", "complete"} =>
         \A n \in 1..Len(message.tool_calls) :
            Cardinality({ i \in ToolIndices :
                            messages[i].tool_call_id = message.tool_calls[n].id }) = 1

\* The last 2k log entries are, in order, the assistant and tool messages of
\* the first k requests of the latest response.
TailAnswers(k) ==
    /\ Len(messages) >= 2 * k
    /\ \A j \in 1..k :
         LET a == messages[Len(messages) - 2 * k + 2 * j - 1]
             t == messages[Len(messages) - 2 * k + 2 * j]
             request == message.tool_calls[j]
         IN  /\ a.role = "assistant"
             /\ Len(a.tool_calls) = 1
             /\ a.tool_calls[1].function = request.function
             /\ t.role = "tool"
             /\ t.name = request.function.name

\* Invocation goes through a batch in the listed order, one call at a time,
\* with the results logged in that order and no completion call in between.
BatchInOrder ==
    /\ pc = "tools" =>
         /\ idx \in 1..Len(message.tool_calls)
         /\ toolInvocations = requested - Len(message.tool_calls) + (idx - 1)
         /\ idx > 1 => lastCall.call = message.tool_calls[idx - 1]
         /\ TailAnswers(idx - 1)
         /\ completionCalls = it
    /\ pc \in {"loop", "complete"} => TailAnswers(Len(message.tool_calls))

\* C3, as claimed: of a batch of several tool calls every request is invoked
\* (none is dropped), one at a time and in the listed order, the tool
\* results are logged in that order, and no completion call is issued
\* between two invocations of the batch.
C3_WholeBatchInvoked ==
    /\ BatchInOrder
    /\ pc # "tools" => toolInvocations = requested

\* C3, amended: the requests of a batch are invoked one at a time in the
\* listed order, the tool results are logged in that order, and no
\* completion call is issued between two invocations of the batch; every
\* request is invoked unless an invocation raises, which ends the query and
\* leaves the requests listed after it uninvoked.
C3_BatchInvokedUntilRaise ==
    /\ BatchInOrder
    /\ (pc # "tools" /\ ~lastCall.raised) => toolInvocations = requested
    /\ lastCall.raised =>
         /\ pc = "returned"
         /\ lastCall.call = message.tool_calls[idx]
         /\ toolInvocations = requested - Len(message.tool_calls) + idx
         /\ TailAnswers(idx - 1)

\* A batch of several calls has been invoked to its end.
C3_Witness ==
    /\ pc = "loop"
    /\ Len(message.tool_calls) > 1
    /\ lastCall.call = message.tool_calls[Len(message.tool_calls)]
    /\ toolInvocations = requested

IsToolLevel(e) == e = "McpError: tool failed"
IsTransport(e) == e = "ClosedResourceError: host gone"

\* C4: a tool invocation that raises a tool-level failure does not end the
\* query: the failure text is logged as the tool-role message of the call
\* and the batch and the loop go on.
C4_ToolFailureAbsorbed ==
    (lastCall.raised /\ IsToolLevel(lastCall.error)) =>
        /\ pc \in {"tools", "loop", "complete"}
        /\ messages[Len(messages)].role = "tool"
        /\ messages[Len(messages)].name = lastCall.call.function.name

\* C5: when a tool invocation fails with a transport-level failure,
\* process_query returns an error string at once: no completion call
\* follows in that query and the requests of the batch listed after the
\* failing one are not invoked.
C5_TransportFailureAborts ==
    (lastCall.raised /\ IsTransport(lastCall.error)) =>
        /\ pc = "returned"
        /\ ret = << "Error executing ", lastCall.call.function.name, ": ",
                    lastCall.error >>
        /\ lastCall.round = it
        /\ completionCalls = it
        /\ lastCall.call = message.tool_calls[idx]
        /\ toolInvocations = requested - Len(message.tool_calls) + idx

\* The host went away at the first call of a batch of several.
C5_Witness ==
    /\ lastCall.raised
    /\ IsTransport(lastCall.error)
    /\ pc = "returned"
    /\ idx < Len(message.tool_calls)

----------------------------------------------------------------------------
(* Properties of the branch on the completion response *)

C9_EmptyToolCallsIsStop ==
    (/\ responses > 0
     /\ FinishReason(variant, message) = "tool_calls"
     /\ message.tool_calls = << >>) =>
        /\ pc = "returned"
        /\ ret = message.content
        /\ lastCall.round < it
        /\ Len(messages) = 2 + 2 * toolInvocations
        /\ completionCalls = it

\* Such a response came after a tool round and has been returned as final.
C9_Witness ==
    /\ responses > 1
    /\ FinishReason(variant, message) = "tool_calls"
    /\ message.tool_calls = << >>
    /\ pc = "returned"

----------------------------------------------------------------------------
(* Properties of the tool arguments *)

\* The argument texts (deepseek) and values (ollama) that are a map.
ParsesAsMap(v, arguments) ==
    IF v = "deepseek" THEN arguments = WellFormedArgs ELSE arguments # Absent

\* C10: when the raw arguments of a tool-call request do not parse as a
\* structured map, the tool is still invoked, with an empty argument map.
C10_EmptyMapOnBadArguments ==
    (lastCall.round > 0 /\ ~ParsesAsMap(variant, lastCall.call.function.arguments))
        => lastCall.args = EmptyDict

----------------------------------------------------------------------------
(* The boundary of the iteration budget *)

\* C11: with max_iterations = 0, process_query returns the exhaustion
\* sentinel, and it issues no completion-API call, no tool-catalog refresh
\* and no tool invocation on the way.
C11_ZeroLimitNoCalls ==
    (limit = 0 /\ cpc = "process_query") =>
        /\ completionCalls = 0
        /\ listCalls = 0
        /\ toolInvocations = 0
        /\ passed = NoRequest
        /\ pc \in {"loop", "returned"}
        /\ (pc = "returned" => ret = Sentinel)

\* process_query has returned the sentinel with max_iterations = 0.
C11_Witness == limit = 0 /\ pc = "returned" /\ ret = Sentinel

----------------------------------------------------------------------------
(* The conversation log *)

IsPrefix(s, t) == Len(s) <= Len(t) /\ SubSeq(t, 1, Len(s)) = s

\* A step inside one execution of process_query.
WithinQuery == cpc = "process_query" /\ cpc' = "process_query"

\* A step that issues a completion call.
IssuesCompletion == completionCalls' = completionCalls + 1

\* C12: within one execution of process_query the log is append-only:
\* every step leaves the log it found as a prefix of the log it leaves (no
\* entry removed, edited, reordered or truncated), each completion call is
\* passed the log as it stands, and so the messages passed to a completion
\* call are a prefix of those passed to every later call of the query.
C12_LogAppendOnly ==
    /\ [](IsPrefix(passed.messages, messages))
    /\ [][WithinQuery =>
            /\ IsPrefix(messages, messages')
            /\ (IssuesCompletion => passed'.messages = messages)]_vars

\* The second completion call of a query has been passed a log that the
\* first round's tool call extended.
C12_Witness == it = 2 /\ passed # NoRequest /\ Len(passed.messages) = 4

----------------------------------------------------------------------------
(* Failures of the completion call *)

\* A completion call of the running query raised.
CompletionFailed == completionCalls > responses

\* What the user is shown of a failed completion call.
FailureTexts ==
    { << "\nError: ", e >> : e \in CompletionExceptions }
        \cup { << "\n" >> \o CompletionError(e) : e \in CompletionExceptions }

\* C13: a failed completion call is never retried.  Once a completion call
\* has raised, process_query is over (it returned ollama's error string or
\* the exception left it), the only step that follows hands the failure to
\* the user as an error text and puts chat_loop back at its prompt: no
\* further completion call, no tool invocation, and the process lives on.
C13_CompletionFailureEndsQuery ==
    /\ [](CompletionFailed =>
            /\ cpc = "process_query"
            /\ pc \in {"returned", "raised"}
            /\ completionCalls = responses + 1
            /\ (pc = "returned" => \E e \in CompletionExceptions : ret = CompletionError(e))
            /\ (pc = "raised" => exc \in CompletionExceptions))
    /\ [][CompletionFailed =>
            /\ ~IssuesCompletion
            /\ toolInvocations' <= toolInvocations
            /\ stdout' \in FailureTexts
            /\ cpc' = "input"]_vars

\* ollama's error string for a failed completion call has been printed and
\* chat_loop is at its prompt again.
C13_Witness ==
    /\ cpc = "input"
    /\ stdout = << "\n" >> \o CompletionError("requests.ConnectionError")

----------------------------------------------------------------------------
(* Aborted queries and the prompt *)

\* The ways a query is aborted: list_tools raised, the completion call
\* raised, call_tool raised, the round loop ran out.
ListingFailed == pc = "raised" /\ listCalls > completionCalls
CompletionAborted == pc \in {"returned", "raised"} /\ CompletionFailed
InvocationFailed == pc = "returned" /\ lastCall.raised
LoopExhausted ==
    /\ pc = "returned"
    /\ ~HasRound(it)
    /\ toolResponses = completionCalls
    /\ ~lastCall.raised

Aborted == ListingFailed \/ CompletionAborted \/ InvocationFailed \/ LoopExhausted

\* C14: however a query aborts (catalog listing failure, completion failure,
\* tool invocation failure, loop exhaustion), chat_loop is still running it,
\* the step that follows puts chat_loop back at its prompt, and at the
\* prompt the next query can be read: no abort ends the session or the
\* process.
C14_AbortReturnsToPrompt ==
    /\ [](Aborted => cpc = "process_query")
    /\ [][Aborted => (cpc' = "input" /\ pc' = "idle")]_vars
    /\ [](cpc = "input" => ENABLED ReadQuery)

\* After a query that ran out of rounds the sentinel has been printed and
\* chat_loop is at its prompt.
C14_Witness == cpc = "input" /\ stdout = << "\n" >> \o Sentinel

----------------------------------------------------------------------------
(* The tool catalog *)

\* C15: the catalog is refreshed in every round before the round's
\* completion call: every round begun has issued its own list_tools call,
\* no completion call is ahead of the refreshes, and the tool declarations
\* passed to a completion call are those built from what the list_tools call
\* of the same round returned, never ones kept from an earlier round.
C15_CatalogRefreshedEachRound ==
    /\ listCalls = it
    /\ completionCalls <= listCalls
    /\ (passed # NoRequest =>
            /\ completionCalls = listCalls
            /\ passed.tools = Declarations(tool_response))

\* The second round's completion call has been passed the two tools its
\* own refresh returned.
C15_Witness ==
    /\ it = 2
    /\ passed # NoRequest
    /\ Len(tool_response) = 2
    /\ passed.tools = Declarations(tool_response)

----------------------------------------------------------------------------
(* No memory across queries *)

\* C16: whatever queries the session ran before and whatever they appended
\* to their logs, process_query starts on a log of exactly two messages, the
\* fixed system message and the user message of the query just read, and
\* that is what the query's first completion call is passed.
C16_FirstCallSeesTwoMessages ==
    LET fresh == << [role |-> "system", content |-> << SystemPrompt >>],
                    [role |-> "user", content |-> query] >>
    IN  /\ (cpc = "process_query" /\ it = 0) => messages = fresh
        /\ (it = 1 /\ passed # NoRequest) => passed.messages = fresh

\* The first completion call of a query has been issued in a session in
\* which an earlier query left a log with tool messages.
C16_Witness ==
    /\ carried
    /\ it = 1
    /\ passed # NoRequest
    /\ Len(passed.messages) = 2

\* C17: a refresh of the tool catalog leaves the conversation log as it
\* was: the message sequence is the same before and after every list_tools
\* call, whether the call answers or raises.
C17_RefreshLeavesLog ==
    [][listCalls' = listCalls + 1 => messages' = messages]_vars

\* A refresh has just been made on a log that already holds tool messages.
C17_Witness == pc = "complete" /\ it >= 2 /\ Len(messages) > 2

----------------------------------------------------------------------------
(* Termination of process_query *)

QueryRunning == cpc = "process_query" /\ pc \in {"loop", "complete", "tools"}
QueryEnded == cpc = "process_query" /\ pc \in {"returned", "raised"}

\* The terminal outcomes: the final answer was returned; the loop ran out;
\* the query was aborted with an error.
Done == pc = "returned" /\ ~CompletionFailed /\ ~lastCall.raised /\ toolResponses < responses
AbortedWithError == ListingFailed \/ CompletionAborted \/ InvocationFailed

ExactlyOneOutcome ==
    /\ Done \/ LoopExhausted \/ AbortedWithError
    /\ ~(Done /\ LoopExhausted)
    /\ ~(Done /\ AbortedWithError)
    /\ ~(LoopExhausted /\ AbortedWithError)

\* The steps a query has left at most: a round is a refresh, a completion
\* call and at most MaxBatch tool calls.
StepsOfRound == MaxBatch + 4

StepsLeft ==
    CASE pc = "loop" -> (limit - it) * StepsOfRound + 1
      [] pc = "complete" -> (limit - it) * StepsOfRound + MaxBatch + 3
      [] pc = "tools" ->
            (limit - it) * StepsOfRound + 2 + (Len(message.tool_calls) - idx)
      [] OTHER -> 0

\* C18: when every external call returns or fails in finite time, every
\* execution of process_query ends: a running query always has a step to
\* take, every step takes it closer to its end (StepsLeft, a natural
\* number, goes down), so a running query leads to an ended one.  It ends
\* in exactly one of: the final answer (DONE), the exhaustion sentinel, an
\* abort with an error.  While the tool calls of a response are handled the
\* loop goes on with the next call, goes back to the head of the round
\* loop, or aborts on a failed invocation; from the head of the loop it
\* goes to the completion call of a new round, to exhaustion, or aborts:
\* after tool calls a query never ends with DONE without a further
\* completion call.
C18_QueryTerminates ==
    /\ QueryRunning ~> QueryEnded
    /\ [](QueryRunning => (ENABLED QueryStep /\ StepsLeft \in Nat))
    /\ [][QueryRunning => StepsLeft' < StepsLeft]_vars
    /\ [](QueryEnded => ExactlyOneOutcome)
    /\ [][pc = "tools" =>
            /\ pc' \in {"tools", "loop", "returned"}
            /\ (pc' = "returned" => lastCall'.raised)]_vars
    /\ [][pc = "loop" =>
            /\ pc' \in {"complete", "raised", "returned"}
            /\ (pc' = "returned" => ~HasRound(it))]_vars

\* A query ended by exhaustion after ten rounds of tool calls.
C18_Witness == QueryEnded /\ LoopExhausted /\ toolInvocations >= max_iterations

----------------------------------------------------------------------------
(* The end of chat_loop *)

\* A step that ends chat_loop's `while True`.
LoopEnds == cpc # cpc' /\ cpc' \notin {"input", "process_query"}

\* A step that hands the line just read to process_query.
QueryStarts == cpc = "input" /\ cpc' = "process_query"

\* What holds of chat_loop whatever ends it: a line that reads "quit" never
\* reaches process_query but the line read is what process_query gets, a
\* running query only ever gives way to the prompt, and a step that prints
\* an error leaves the loop at its prompt.
LoopGoesOn ==
    /\ QueryStarts =>
          /\ lower(query') # QuitToken
          /\ messages'[2].content = query'
    /\ cpc = "process_query" => cpc' \in {"process_query", "input"}
    /\ (stdout' # stdout /\ Head(stdout') = "\nError: ") => cpc' = "input"

----------------------------------------------------------------------------
(* The shape of the log *)

\* Tool invocations of the running query that returned.
Succeeded == toolInvocations - (IF lastCall.raised THEN 1 ELSE 0)

\* The k-th pair of the log: an assistant message with empty content and
\* exactly one tool-call request, then the tool message of that request
\* (same tool name, and the request's id where the request carries one).
IsPair(k) ==
    LET a == messages[2 * k + 1]
        t == messages[2 * k + 2]
    IN  /\ a.role = "assistant"
        /\ a.content = << "" >>
        /\ Len(a.tool_calls) = 1
        /\ t.role = "tool"
        /\ t.name = a.tool_calls[1].function.name
        /\ (a.tool_calls[1].id # NoId => t.tool_call_id = a.tool_calls[1].id)

\* C20: at every point of an execution of process_query the log is the
\* system message, the user message, then one adjacent pair (assistant
\* message with one tool-call request and empty content, tool message
\* answering it) for every tool invocation that returned so far: its length
\* is 2 + 2n for n such invocations, and an invocation that raised left no
\* entry.
C20_LogIsPairs ==
    cpc = "process_query" =>
        /\ Len(messages) = 2 + 2 * Succeeded
        /\ messages[1].role = "system"
        /\ messages[2] = [role |-> "user", content |-> query]
        /\ \A k \in 1..Succeeded : IsPair(k)

\* The second tool invocation of a query raised: the log holds the pair of
\* the first one and nothing of the second.
C20_Witness ==
    /\ cpc = "process_query"
    /\ lastCall.raised
    /\ toolInvocations = 2
    /\ Len(messages) = 4

====
